---- MODULE Spec2Model ----
\* Model of occant_baselines/models/occant.py: the OccupancyAnticipator
\* selector (construction over a shared configuration object, forward with
\* its post-processing), the anticipator variants it owns, the BaseModel
\* output normaliser, the crossViewStub thresholding and the pretrained
\* checkpoint key filter of OccAntRGB.
EXTENDS Integers, Sequences, FiniteSets, TLC

VARIABLES cfg, cfg_before, pc, events, self, x, main_out, out, reads, cv, ck

vars == <<cfg, cfg_before, pc, events, self, x, main_out, out, reads, cv, ck>>

\* ------------------------------------------------------------------ bounds
\* Largest batch size of an observation bundle.
MaxBatch == 3
\* Class scores produced by the foreign model lie in -MaxLogit..MaxLogit.
MaxLogit == 1
\* Largest number of entries of a checkpoint's mapper_state_dict.
MaxCkptLen == 3
\* Tensor values stored in a checkpoint are named 1..NumTensors.
NumTensors == 2

\* ------------------------------------------------------- program constants
\* self.bev_size = (128, 128)
bev_size == 128
\* torch.zeros((2, 2, 128, 128)) in crossViewStub.forward: the batch dimension
stub_batch == 2
\* torch.zeros((2, 2, 128, 128)) in crossViewStub.forward: the channel dimension
stub_channels == 2

\* --------------------------------------------------------------- tensors
\* A tensor is its batch size, its spatial size and, per channel, where the
\* channel's values come from and the operations applied to them since.
Channel(src, idx) == [src |-> src, idx |-> idx, ops |-> <<>>]

Tensor(b, c, h, w, src) ==
    [b |-> b, h |-> h, w |-> w, ch |-> [i \in 1..c |-> Channel(src, i)]]

Shape(t) == <<t.b, Len(t.ch), t.h, t.w>>

\* Apply the elementwise (or per-map) function fn to every channel of t.
Apply(t, fn) ==
    [t EXCEPT !.ch = [i \in 1..Len(t.ch) |-> [t.ch[i] EXCEPT !.ops = Append(@, fn)]]]

\* Observation keys and their channel counts (docstrings of the variants).
KeyChannels(key) == IF key \in {"ego_map_gt", "ego_map_gt_anticipated"} THEN 2 ELSE 3

\* x[key] of an observation bundle with batch size xin.B and spatial size xin.S.
Input(xin, key) == Tensor(xin.B, KeyChannels(key), xin.S, xin.S, key)

NoInput == [B |-> 0, S |-> 0]

\* Result of a forward call: the output dictionary, or the exception raised.
Ok(d) == [status |-> "ok", dict |-> d]
Raised(e) == [status |-> "error", dict |-> <<>>, error |-> e]
NoOutput == [status |-> "none", dict |-> <<>>]

\* ------------------------------------------------------------ configuration
\* The configuration node: the fields the module reads, the optional rgb_key
\* entry and the frozen flag toggled by defrost() / freeze().
Absent == "<absent>"

NormChoices == {"sigmoid", "softmax", "identity"}

ClassCounts == {2, 3}

defrost(c) == [c EXCEPT !.frozen = FALSE]

freeze_unchanged(c) == c

freeze(c) == [c EXCEPT !.frozen = TRUE]

\* cfg.rgb_key = "rgb_large"
set_rgb_key(c) == [c EXCEPT !.rgb_key = "rgb_large"]

\* self.config.get("rgb_key", "rgb")
get_rgb_key(c) == IF c.rgb_key = Absent THEN "rgb" ELSE c.rgb_key

\* ------------------------------------------------------------ BaseModel
NoVariant == [cls |-> "none"]

\* BaseModel.__init__, first if-chain: the attribute normalize_channel_0.
init_channel_0(c) ==
    IF c.channel_0 = "sigmoid" THEN "sigmoid"
    ELSE IF c.channel_0 = "softmax" THEN "softmax_2d"
    ELSE IF c.channel_0 = "identity" THEN "Identity"
    ELSE "unset"

\* BaseModel.__init__, second if-chain: it assigns normalize_channel_1 for
\* sigmoid and softmax, and normalize_channel_0 (again) for identity.
BaseModel_init(c) ==
    [normalize_channel_0 |->
         IF c.channel_1 = "identity" THEN "Identity" ELSE init_channel_0(c),
     normalize_channel_1 |->
         IF c.channel_1 = "sigmoid" THEN "sigmoid"
         ELSE IF c.channel_1 = "softmax" THEN "softmax_2d"
         ELSE "unset"]

\* The function _normalize_decoder_output calls on channel number ch (from 0).
channel_normalizer(m, ch) == m.norm.normalize_channel_0

\* torch.sigmoid / softmax_2d append themselves to the channel's history;
\* torch.nn.Identity() returns its argument.
normalize(fn, chan) ==
    IF fn = "Identity" THEN chan ELSE [chan EXCEPT !.ops = Append(@, fn)]

\* BaseModel._normalize_decoder_output: one normalised map per channel,
\* stacked along dim 1.
normalize_decoder_output(m, x_dec) ==
    [x_dec EXCEPT !.ch =
        [i \in 1..Len(x_dec.ch) |-> normalize(channel_normalizer(m, i - 1), x_dec.ch[i])]]

\* ------------------------------------------------------------ variants
\* Output size of a stride-2 convolution or pooling layer of the ResNet trunk
\* (kernel 7 pad 3, kernel 3 pad 1: both give floor((n - 1) / 2) + 1).
Halve(n) == ((n - 1) \div 2) + 1

\* conv1, maxpool, layer2, layer3, layer4 halve; five Upsample layers double.
ANSRGB_size(n) == 32 * Halve(Halve(Halve(Halve(Halve(n)))))

ANSRGB_main_1ch(t) == Tensor(t.b, 1, ANSRGB_size(t.h), ANSRGB_size(t.w), "ANSRGB.main")

\* ANSRGB.main: the last convolution is nn.Conv2d(32, 2, 3, padding=1).
ANSRGB_main(t) == Tensor(t.b, 2, ANSRGB_size(t.h), ANSRGB_size(t.w), "ANSRGB.main")

\* UNetDecoder(gp_cfg.nclasses, nsf) on the encoding of a map t: nclasses
\* channels at the spatial size of t.
gp_decoder(nclasses, t) == Tensor(t.b, nclasses, t.h, t.w, "gp_decoder")

\* The variant object built by each class's __init__ (BaseModel.__init__
\* followed by _create_gp_models) from the configuration c.
ANSRGB(c) ==
    [cls |-> "ANSRGB", norm |-> BaseModel_init(c), rgb_key |-> get_rgb_key(c)]

ANSDepth(c) == [cls |-> "ANSDepth", norm |-> BaseModel_init(c)]

OccAntRGB(c) ==
    [cls |-> "OccAntRGB", norm |-> BaseModel_init(c), nclasses |-> c.nclasses,
     gp_depth_proj_estimator |-> ANSRGB(c), rgb_key |-> get_rgb_key(c)]

OccAntDepth(c) ==
    [cls |-> "OccAntDepth", norm |-> BaseModel_init(c), nclasses |-> c.nclasses]

OccAntRGBD(c) ==
    [cls |-> "OccAntRGBD", norm |-> BaseModel_init(c), nclasses |-> c.nclasses]

OccAntGroundTruth(c) == [cls |-> "OccAntGroundTruth", norm |-> BaseModel_init(c)]

crossViewStub(c) == [cls |-> "crossViewStub"]

\* ---------------------------------------------------- variants: forward
\* Each _do_gp_anticipation gives the output dictionary and the observation
\* keys it read.
ANSRGB_do_gp_anticipation(m, xin) ==
    [out |-> Ok("occ_estimate" :>
                normalize_decoder_output(m, ANSRGB_main(Input(xin, m.rgb_key)))),
     reads |-> {m.rgb_key}]

ANSDepth_do_gp_anticipation(m, xin) ==
    [out |-> Ok("occ_estimate" :> Input(xin, "ego_map_gt")),
     reads |-> {"ego_map_gt"}]

\* The RGB branch and the depth-projection estimate are merged at three
\* scales; the decoder output has the spatial size of the estimate.
OccAntRGB_do_gp_anticipation(m, xin) ==
    LET est == ANSRGB_do_gp_anticipation(m.gp_depth_proj_estimator, xin)
        x_depth_proj == est.out.dict["occ_estimate"]
        x_dec == normalize_decoder_output(m, gp_decoder(m.nclasses, x_depth_proj))
    IN  [out |-> Ok(("depth_proj_estimate" :> x_depth_proj) @@ ("occ_estimate" :> x_dec)),
         reads |-> {m.rgb_key} \cup est.reads]

OccAntDepth_do_gp_anticipation(m, xin) ==
    [out |-> Ok("occ_estimate" :>
                normalize_decoder_output(m, gp_decoder(m.nclasses, Input(xin, "ego_map_gt")))),
     reads |-> {"ego_map_gt"}]

OccAntRGBD_do_gp_anticipation(m, xin) ==
    [out |-> Ok("occ_estimate" :>
                normalize_decoder_output(m, gp_decoder(m.nclasses, Input(xin, "ego_map_gt")))),
     reads |-> {"rgb", "ego_map_gt"}]

OccAntGroundTruth_do_gp_anticipation(m, xin) ==
    [out |-> Ok("occ_estimate" :> Input(xin, "ego_map_gt_anticipated")),
     reads |-> {"ego_map_gt_anticipated"}]

\* pred[:, 0, ...] = cr_pred[:, 1, ...] > 0.5 assigns a (b, 128, 128) mask to a
\* (2, 128, 128) slice: b = 2 fits, b = 1 is broadcast, any other b raises.
assign_fits(b) == b = stub_batch \/ b = 1

\* crossViewStub.forward on a batch of xin.B images: pred is allocated as
\* torch.zeros((2, 2, 128, 128)) whatever the batch size.
crossViewStub_forward(m, xin) ==
    LET pred == Tensor(stub_batch, stub_channels, bev_size, bev_size, "cr_pred")
        occ == [pred EXCEPT !.ch = <<[src |-> "cr_pred", idx |-> 2, ops |-> <<"gt_0.5">>],
                                     [src |-> "cr_pred", idx |-> 1, ops |-> <<"lt_0.5">>]>>]
        zeros == Tensor(stub_batch, stub_channels, bev_size, bev_size, "zeros")
    IN  [out |-> IF assign_fits(xin.B)
                 THEN Ok(("occ_estimate" :> occ) @@ ("depth_proj_estimate" :> zeros))
                 ELSE Raised("RuntimeError"),
         reads |-> {"rgb_large"}]

\* self.main(x): BaseModel.forward or crossViewStub.forward.
main_forward(m, xin) ==
    CASE m.cls = "ANSRGB" -> ANSRGB_do_gp_anticipation(m, xin)
      [] m.cls = "ANSDepth" -> ANSDepth_do_gp_anticipation(m, xin)
      [] m.cls = "OccAntRGB" -> OccAntRGB_do_gp_anticipation(m, xin)
      [] m.cls = "OccAntDepth" -> OccAntDepth_do_gp_anticipation(m, xin)
      [] m.cls = "OccAntRGBD" -> OccAntRGBD_do_gp_anticipation(m, xin)
      [] m.cls = "OccAntGroundTruth" -> OccAntGroundTruth_do_gp_anticipation(m, xin)
      [] m.cls = "crossViewStub" -> crossViewStub_forward(m, xin)

\* ------------------------------------------------- OccupancyAnticipator
RecognizedTypes ==
    {"ans_rgb", "ans_depth", "occant_rgb", "occant_depth", "occant_rgbd",
     "occant_ground_truth", "occant_rgb_large", "cross-view"}

\* The two branches of __init__ that assign cfg.rgb_key.
LargeTypes == {"occant_rgb_large", "cross-view"}

\* Unrecognised tags handed to the constructor.
OtherTypes == {"occant", "ans_rgb_large"}

\* The if/elif chain of __init__: the class instantiated for a tag.
variant_class_no_rgbd(model_type) ==
    CASE model_type = "ans_rgb" -> "ANSRGB"
      [] model_type = "ans_depth" -> "ANSDepth"
      [] model_type = "occant_rgb" -> "OccAntRGB"
      [] model_type = "occant_depth" -> "OccAntDepth"
      [] model_type = "occant_ground_truth" -> "OccAntGroundTruth"
      [] model_type = "occant_rgb_large" -> "OccAntRGB"
      [] model_type = "cross-view" -> "crossViewStub"
      [] OTHER -> "invalid"

variant_class(model_type) ==
    CASE model_type = "ans_rgb" -> "ANSRGB"
      [] model_type = "ans_depth" -> "ANSDepth"
      [] model_type = "occant_rgb" -> "OccAntRGB"
      [] model_type = "occant_depth" -> "OccAntDepth"
      [] model_type = "occant_rgbd" -> "OccAntRGBD"
      [] model_type = "occant_ground_truth" -> "OccAntGroundTruth"
      [] model_type = "occant_rgb_large" -> "OccAntRGB"
      [] model_type = "cross-view" -> "crossViewStub"
      [] OTHER -> "invalid"

\* The constructor call of the selected branch.
construct(cls, c) ==
    CASE cls = "ANSRGB" -> ANSRGB(c)
      [] cls = "ANSDepth" -> ANSDepth(c)
      [] cls = "OccAntRGB" -> OccAntRGB(c)
      [] cls = "OccAntDepth" -> OccAntDepth(c)
      [] cls = "OccAntRGBD" -> OccAntRGBD(c)
      [] cls = "OccAntGroundTruth" -> OccAntGroundTruth(c)
      [] cls = "crossViewStub" -> crossViewStub(c)

apply_sigmoid_always(model_type) == TRUE

\* self._model_apply_sigmoid: True, set to False in the cross-view branch.
model_apply_sigmoid(model_type) == model_type # "cross-view"

\* self._model_pred_refit: False, set to True in the two rgb_large branches.
model_pred_refit(model_type) == model_type \in LargeTypes

\* F.interpolate(t, size, mode='area')
F_interpolate(t, size) == [Apply(t, "interpolate_area") EXCEPT !.h = size, !.w = size]

F_sigmoid(t) == Apply(t, "sigmoid")

PostKeys == {"occ_estimate", "depth_proj_estimate"}

\* The loop of OccupancyAnticipator.forward over the two known keys.
postprocess(d) ==
    [k \in DOMAIN d |->
        IF k \in PostKeys THEN F_sigmoid(F_interpolate(d[k], bev_size)) ELSE d[k]]

\* OccupancyAnticipator.forward, given the result of self.main(x).
forward_out(s, r) ==
    IF r.status = "ok" /\ s.model_apply_sigmoid THEN Ok(postprocess(r.dict)) ELSE r

InputSizes == {64, 128}

NoSelf ==
    [model_type |-> Absent, model_apply_sigmoid |-> TRUE, model_pred_refit |-> FALSE,
     main |-> NoVariant]

NoCv == [b |-> 0, cr_pred |-> <<>>, status |-> "none", pred |-> <<>>, depth |-> <<>>]

NoCk == [state_dict |-> <<>>, status |-> "none", cleaned |-> <<>>]

\* A configuration that no constructor has seen yet: no rgb_key entry; the
\* caller sets type (and the frozen flag) before each construction.
Init ==
    /\ cfg \in [type : {Absent}, frozen : {FALSE}, rgb_key : {Absent},
                channel_0 : NormChoices, channel_1 : NormChoices,
                nclasses : ClassCounts]
    /\ cfg_before = cfg
    /\ pc = "idle"
    /\ events = <<>>
    /\ self = NoSelf
    /\ x = NoInput
    /\ main_out = NoOutput
    /\ out = NoOutput
    /\ reads = {}
    /\ cv = NoCv
    /\ ck = NoCk

\* __init__ up to cfg.defrost(), called with the shared configuration whose
\* type is t and whose frozen flag is f.
InitBegin(t, f) ==
    /\ pc \in {"idle", "done", "raised"}
    /\ cfg_before' = [cfg EXCEPT !.type = t, !.frozen = f]
    /\ cfg' = defrost(cfg_before')
    /\ self' = [NoSelf EXCEPT !.model_type = t]
    /\ events' = <<"defrost">>
    /\ pc' = "dispatch"
    /\ x' = NoInput
    /\ main_out' = NoOutput
    /\ out' = NoOutput
    /\ reads' = {}
    /\ UNCHANGED <<cv, ck>>

\* cfg.rgb_key = "rgb_large" in the occant_rgb_large and cross-view branches.
InitSetRgbKey ==
    /\ pc = "dispatch"
    /\ self.model_type \in LargeTypes
    /\ cfg' = set_rgb_key(cfg)
    /\ events' = Append(events, "set_rgb_key")
    /\ pc' = "construct"
    /\ UNCHANGED <<cfg_before, self, x, main_out, out, reads, cv, ck>>

\* self.main = <Class>(cfg) and the flags assigned after it in the branch.
InitConstruct ==
    /\ \/ pc = "construct"
       \/ pc = "dispatch" /\ self.model_type \notin LargeTypes
    /\ variant_class(self.model_type) # "invalid"
    /\ self' = [self EXCEPT
                   !.main = construct(variant_class(self.model_type), cfg),
                   !.model_apply_sigmoid = model_apply_sigmoid(self.model_type),
                   !.model_pred_refit = model_pred_refit(self.model_type)]
    /\ events' = Append(events, "construct")
    /\ pc' = "freeze"
    /\ UNCHANGED <<cfg, cfg_before, x, main_out, out, reads, cv, ck>>

\* else: raise ValueError(f"Invalid model_type {model_type}")
InitRaise ==
    /\ pc = "dispatch"
    /\ variant_class(self.model_type) = "invalid"
    /\ events' = Append(events, "raise")
    /\ pc' = "raised"
    /\ UNCHANGED <<cfg, cfg_before, self, x, main_out, out, reads, cv, ck>>

\* self.bev_size, self.bev_res, cfg.freeze(): the constructor returns.
InitFreeze ==
    /\ pc = "freeze"
    /\ cfg' = freeze(cfg)
    /\ events' = Append(events, "freeze")
    /\ pc' = "done"
    /\ UNCHANGED <<cfg_before, self, x, main_out, out, reads, cv, ck>>

\* OccupancyAnticipator.forward on a bundle of batch size b, spatial size s.
Forward(b, s) ==
    /\ pc = "done"
    /\ x' = [B |-> b, S |-> s]
    /\ LET r == main_forward(self.main, x') IN
          /\ main_out' = r.out
          /\ reads' = r.reads
          /\ out' = forward_out(self, r.out)
    /\ UNCHANGED <<cfg, cfg_before, pc, events, self, cv, ck>>

Next ==
    \/ \E t \in RecognizedTypes \cup OtherTypes, f \in BOOLEAN : InitBegin(t, f)
    \/ InitSetRgbKey
    \/ InitConstruct
    \/ InitRaise
    \/ InitFreeze
    \/ \E b \in 1..MaxBatch, s \in InputSizes : Forward(b, s)

Spec == Init /\ [][Next]_vars

\* ===================================================== claims on Spec
Constructing == pc \in {"dispatch", "construct", "freeze"}

\* The six core tags plus the cross-view tag.
SevenTypes == RecognizedTypes \ {"occant_rgb_large"}

SixCoreTypes == SevenTypes \ {"cross-view"}

Outcome(tags) ==
    /\ pc \in {"done", "raised"} => ((pc = "done") <=> (cfg_before.type \in tags))
    /\ pc = "done" => self.model_type = cfg_before.type /\ self.main # NoVariant
    /\ pc = "raised" => self.main = NoVariant
    /\ Constructing => ENABLED (InitSetRgbKey \/ InitConstruct \/ InitRaise \/ InitFreeze)

\* C1 (as stated): construction succeeds, with model_type equal to the tag,
\* exactly for the seven tags (six core variants and cross-view); for every
\* other tag it raises and no variant is instantiated.
C1_SevenTypes == Outcome(SevenTypes)

\* C1 (amended): construction succeeds, with model_type equal to the tag and a
\* variant instantiated, exactly for the eight tags of the if/elif chain (the
\* seven and occant_rgb_large); for every other tag it raises and no variant
\* is instantiated; a started construction always reaches one of the two ends.
C1_EightTypes == Outcome(RecognizedTypes)

C1_Witness ==
    /\ pc = "done"
    /\ self.model_type = "occant_rgb_large"
    /\ self.main.cls = "OccAntRGB"

PostProcessed(t, u) ==
    /\ u.b = t.b /\ u.h = bev_size /\ u.w = bev_size
    /\ Len(u.ch) = Len(t.ch)
    /\ \A i \in 1..Len(t.ch) :
          /\ u.ch[i].src = t.ch[i].src /\ u.ch[i].idx = t.ch[i].idx
          /\ u.ch[i].ops = t.ch[i].ops \o <<"interpolate_area", "sigmoid">>

\* C2: forward resizes (area, 128x128) and then applies sigmoid to exactly the
\* keys occ_estimate and depth_proj_estimate that the variant returned, if and
\* only if the variant is not the cross-view adapter; for the cross-view
\* adapter, and for any other key, what the variant returned is passed on
\* unchanged.
C2_PostProcessing ==
    /\ out.status = main_out.status
    /\ out.status = "ok" =>
          /\ DOMAIN out.dict = DOMAIN main_out.dict
          /\ \A k \in DOMAIN out.dict :
                IF self.model_type # "cross-view" /\ k \in PostKeys
                THEN PostProcessed(main_out.dict[k], out.dict[k])
                ELSE out.dict[k] = main_out.dict[k]

C2_Witness ==
    /\ out.status = "ok"
    /\ self.model_type = "occant_rgb"
    /\ x.S = 64
    /\ DOMAIN out.dict = PostKeys
    /\ Shape(main_out.dict["depth_proj_estimate"]) = <<x.B, 2, 64, 64>>
    /\ Shape(out.dict["depth_proj_estimate"]) = <<x.B, 2, 128, 128>>

ExpectedEvents(t) ==
    <<"defrost">> \o (IF t \in LargeTypes THEN <<"set_rgb_key">> ELSE <<>>)
                  \o <<"construct", "freeze">>

IsPrefix(s, t) == Len(s) <= Len(t) /\ SubSeq(t, 1, Len(s)) = s

\* C3: a successful construction makes the configuration mutable, then assigns
\* rgb_key at most once and only for occant_rgb_large and cross-view, then
\* constructs the variant (which reads the assigned rgb_key), then freezes the
\* configuration; while the constructor runs the configuration is mutable and
\* once it has returned the configuration is frozen.
C3_Order ==
    /\ pc # "raised" /\ pc # "idle" => IsPrefix(events, ExpectedEvents(self.model_type))
    /\ pc = "done" => events = ExpectedEvents(self.model_type) /\ cfg.frozen
    /\ Constructing => ~cfg.frozen
    /\ pc = "done" /\ self.model_type = "occant_rgb_large" =>
          /\ self.main.rgb_key = "rgb_large"
          /\ self.main.gp_depth_proj_estimator.rgb_key = "rgb_large"

C3_Witness ==
    /\ pc = "done"
    /\ self.model_type = "occant_rgb_large"
    /\ cfg_before.frozen
    /\ cfg_before.rgb_key = Absent
    /\ events = <<"defrost", "set_rgb_key", "construct", "freeze">>

NormOps(choice) ==
    CASE choice = "sigmoid" -> <<"sigmoid">>
      [] choice = "softmax" -> <<"softmax_2d">>
      [] choice = "identity" -> <<>>

NormalizingClasses == {"ANSRGB", "OccAntRGB", "OccAntDepth", "OccAntRGBD"}

\* C4: for every configured pair (channel_0, channel_1), the normalised
\* decoder output has channel 0 passed through the function chosen for
\* channel_0 and channel 1 through the function chosen for channel_1.
C4_PerChannel ==
    main_out.status = "ok" /\ self.main.cls \in NormalizingClasses =>
        LET occ == main_out.dict["occ_estimate"] IN
            /\ occ.ch[1].ops = NormOps(cfg.channel_0)
            /\ occ.ch[2].ops = NormOps(cfg.channel_1)

DecoderTypes == {"occant_rgb", "occant_depth", "occant_rgbd"}

C8_KeyByTag ==
    pc = "done" =>
        /\ self.model_type \in {"ans_rgb", "occant_rgb"} => self.main.rgb_key = "rgb"
        /\ "rgb_large" \in reads => self.model_type \in LargeTypes

\* C9: when construction raises for an unrecognised tag the configuration is
\* as it was before the call, fields and frozen flag alike.
C9_FailureLeavesConfig == pc = "raised" => cfg = cfg_before

\* ============================================ crossViewStub, value by value
\* The softmax, the comparisons and the assignments of crossViewStub.forward
\* work pixel by pixel: the model follows one pixel position through the
\* batch. cr_pred[n] is the pair of class scores of batch element n there.
\* Class scores of one pixel, as the foreign model returns them.
Logits == (-MaxLogit)..MaxLogit

RECURSIVE Pow2(_)
Pow2(n) == IF n = 0 THEN 1 ELSE 2 * Pow2(n - 1)

\* nn.Softmax2d() at one pixel with scores <<l0, l1>>: the two probabilities
\* as numerators over a common denominator. Base 2 stands for base e (the
\* order of the probabilities and their equality are the same).
Softmax2d(l) ==
    LET e0 == Pow2(l[1] + MaxLogit)
        e1 == Pow2(l[2] + MaxLogit)
    IN  [p0 |-> e0, p1 |-> e1, den |-> e0 + e1]

ge_half(num, den) == 2 * num >= den

\* p > 0.5 for p = num / den
gt_half(num, den) == 2 * num > den

\* p < 0.5 for p = num / den
lt_half(num, den) == 2 * num < den

\* A boolean mask value stored into the float tensor pred.
AsFloat(bool) == IF bool THEN 1 ELSE 0

\* The map (batch element) of cr_pred that lands in pred[n] when a mask of
\* batch size b is assigned to a slice of batch size stub_batch.
broadcast_index(b, n) == IF b = 1 THEN 1 ELSE n

\* pred after the two masked assignments, at the pixel followed: per batch
\* element, the values of channel 0 and channel 1.
stub_pred(b, cr_pred) ==
    [n \in 1..stub_batch |->
        LET p == Softmax2d(cr_pred[broadcast_index(b, n)]) IN
        <<AsFloat(gt_half(p.p1, p.den)), AsFloat(lt_half(p.p0, p.den))>>]

\* torch.zeros_like(pred)
zeros_like(pred) == [n \in 1..Len(pred) |-> [c \in 1..Len(pred[n]) |-> 0]]

\* The scores of a batch of 1..MaxBatch images returned by the foreign model.
InitCV ==
    /\ cfg = [type |-> "cross-view", frozen |-> TRUE, rgb_key |-> "rgb_large",
              channel_0 |-> "sigmoid", channel_1 |-> "sigmoid", nclasses |-> 2]
    /\ cfg_before = cfg
    /\ pc = "done"
    /\ events = <<>>
    /\ self = [NoSelf EXCEPT !.model_type = "cross-view", !.model_apply_sigmoid = FALSE,
                             !.model_pred_refit = TRUE, !.main = crossViewStub(cfg)]
    /\ x = NoInput
    /\ main_out = NoOutput
    /\ out = NoOutput
    /\ reads = {}
    /\ \E b \in 1..MaxBatch :
          \E scores \in [1..b -> Logits \X Logits] :
              cv = [NoCv EXCEPT !.b = b, !.cr_pred = scores]
    /\ ck = NoCk

\* crossViewStub.forward on the scores cv.cr_pred.
StubForward ==
    /\ cv.status = "none"
    /\ cv' = IF assign_fits(cv.b)
             THEN [cv EXCEPT !.status = "ok",
                             !.pred = stub_pred(cv.b, cv.cr_pred),
                             !.depth = zeros_like(stub_pred(cv.b, cv.cr_pred))]
             ELSE [cv EXCEPT !.status = "error"]
    /\ UNCHANGED <<cfg, cfg_before, pc, events, self, x, main_out, out, reads, ck>>

NextCV == StubForward

SpecCV == InitCV /\ [][NextCV]_vars

\* C5: at every pixel of every input map, with softmax probabilities
\* (p0, p1): channel 0 of the output is 1 exactly when p1 > 0.5, channel 1 is
\* 1 exactly when p0 < 0.5 (both 0 when the probabilities are exactly 0.5),
\* every output value is 0 or 1, and depth_proj_estimate is zero everywhere.
C5_Threshold ==
    cv.status = "ok" =>
        /\ \A n \in 1..cv.b :
              LET p == Softmax2d(cv.cr_pred[n]) IN
                  /\ cv.pred[n][1] = 1 <=> 2 * p.p1 > p.den
                  /\ cv.pred[n][2] = 1 <=> 2 * p.p0 < p.den
                  /\ 2 * p.p0 = p.den => cv.pred[n] = <<0, 0>>
        /\ \A n \in 1..Len(cv.pred) : \A c \in 1..2 :
              /\ cv.pred[n][c] \in {0, 1}
              /\ cv.depth[n][c] = 0

C5_Witness ==
    /\ cv.status = "ok"
    /\ cv.b = 2
    /\ cv.cr_pred[1] = <<0, 0>>
    /\ cv.cr_pred[2] = <<0, 1>>
    /\ cv.pred[1] = <<0, 0>>
    /\ cv.pred[2] = <<1, 1>>

\* C10: for every batch size B >= 1, crossViewStub.forward returns, and its
\* occ_estimate and depth_proj_estimate have batch dimension B.
C10_BatchDimension ==
    cv.status # "none" =>
        /\ cv.status = "ok"
        /\ Len(cv.pred) = cv.b
        /\ Len(cv.depth) = cv.b

\* ======================================= OccAntRGB._load_pretrained_model
\* A checkpoint key is a string, written as the sequence of its fragments:
\* <<"a", ".", "projection_unit", ".", "w">> is "a.projection_unit.w". The
\* fragments are the letters of the alphabet the substring tests work on.
MAPPER_COPY == <<"mapper", "_copy">>

PROJECTION_UNIT == <<"projection_unit">>

MODULE_DOT == <<"module", ".">>

MAIN_MAIN_DOT == <<"mapper", ".", "projection_unit", ".", "main", ".", "main", ".">>

\* pat in s
Contains(s, pat) ==
    \E i \in 1..(Len(s) - Len(pat) + 1) : SubSeq(s, i, i + Len(pat) - 1) = pat

\* s.replace(old, ""): every occurrence of old, found left to right, removed.
RECURSIVE Replace(_, _)
Replace(s, old) ==
    IF Len(s) < Len(old) THEN s
    ELSE IF SubSeq(s, 1, Len(old)) = old
         THEN Replace(SubSeq(s, Len(old) + 1, Len(s)), old)
         ELSE <<Head(s)>> \o Replace(Tail(s), old)

skip_key_no_copy_test(k) == ~Contains(k, PROJECTION_UNIT)

\* if ("mapper_copy" in k) or ("projection_unit" not in k): continue
skip_key(k) == Contains(k, MAPPER_COPY) \/ ~Contains(k, PROJECTION_UNIT)

\* new_k after the two replace calls
new_key(k) == Replace(Replace(k, MODULE_DOT), MAIN_MAIN_DOT)

\* cleaned_state_dict after the loop has seen the first n items, in the
\* dictionary's order: a later item overwrites an earlier one of the same
\* new key.
RECURSIVE cleaned_state_dict(_, _)
cleaned_state_dict(sd, n) ==
    IF n = 0 THEN <<>>
    ELSE IF skip_key(sd[n].k) THEN cleaned_state_dict(sd, n - 1)
         ELSE (new_key(sd[n].k) :> sd[n].v) @@ cleaned_state_dict(sd, n - 1)

Key_a == <<"a", ".", "projection_unit", ".", "w">>
Key_a_copy == <<"a", ".", "mapper", "_copy", ".", "projection_unit", ".", "w">>
Key_other == <<"b", ".", "other", ".", "w">>
Key_plain == MAIN_MAIN_DOT \o <<"w">>
Key_module_first == MODULE_DOT \o MAIN_MAIN_DOT \o <<"w">>
Key_module_inside ==
    <<"mapper", ".", "projection_unit", ".", "main", ".", "module", ".", "main", ".", "w">>
Key_submodule == MAIN_MAIN_DOT \o <<"sub", "module", ".", "w">>
Key_copy ==
    <<"mapper", "_copy", ".", "projection_unit", ".", "main", ".", "main", ".", "w">>

\* Keys a mapper_state_dict is made of.
KeyPool ==
    {Key_a, Key_a_copy, Key_other, Key_plain, Key_module_first, Key_module_inside,
     Key_submodule, Key_copy}

Tensors == 1..NumTensors

\* A mapper_state_dict: up to MaxCkptLen items with distinct keys, in order.
StateDicts ==
    UNION {{sd \in [1..n -> [k : KeyPool, v : Tensors]] :
               \A i, j \in 1..n : sd[i].k = sd[j].k => i = j} : n \in 1..MaxCkptLen}

InitCkpt ==
    /\ cfg = [type |-> "occant_rgb", frozen |-> FALSE, rgb_key |-> Absent,
              channel_0 |-> "sigmoid", channel_1 |-> "sigmoid", nclasses |-> 2]
    /\ cfg_before = cfg
    /\ pc = "construct"
    /\ events = <<"defrost">>
    /\ self = [NoSelf EXCEPT !.model_type = "occant_rgb"]
    /\ x = NoInput
    /\ main_out = NoOutput
    /\ out = NoOutput
    /\ reads = {}
    /\ cv = NoCv
    /\ \E sd \in StateDicts : ck = [NoCk EXCEPT !.state_dict = sd]

\* _load_pretrained_model up to the call of load_state_dict, which receives
\* ck.cleaned.
LoadPretrained ==
    /\ ck.status = "none"
    /\ ck' = [ck EXCEPT !.status = "filtered",
                        !.cleaned = cleaned_state_dict(ck.state_dict, Len(ck.state_dict))]
    /\ UNCHANGED <<cfg, cfg_before, pc, events, self, x, main_out, out, reads, cv>>

NextCkpt == LoadPretrained

SpecCkpt == InitCkpt /\ [][NextCkpt]_vars

IsPrefixOf(pre, s) == Len(pre) <= Len(s) /\ SubSeq(s, 1, Len(pre)) = pre

StripPrefix(s, pre) == IF IsPrefixOf(pre, s) THEN SubSeq(s, Len(pre) + 1, Len(s)) ELSE s

StripPrefixes(k) == StripPrefix(StripPrefix(k, MODULE_DOT), MAIN_MAIN_DOT)

Kept(k) == Contains(k, PROJECTION_UNIT) /\ ~Contains(k, MAPPER_COPY)

KeptItems == {i \in 1..Len(ck.state_dict) : Kept(ck.state_dict[i].k)}

\* C6 (as stated): a key is kept iff it contains projection_unit and not
\* mapper_copy; every kept key appears in the result as the key with the
\* prefixes "module." and "mapper.projection_unit.main.main." stripped,
\* holding the kept key's tensor; nothing else is in the result.
C6_StripPrefixes ==
    ck.status = "filtered" =>
        /\ DOMAIN ck.cleaned = {StripPrefixes(ck.state_dict[i].k) : i \in KeptItems}
        /\ \A i \in KeptItems :
              ck.cleaned[StripPrefixes(ck.state_dict[i].k)] = ck.state_dict[i].v

\* What each kept key of the pool becomes when every occurrence of "module."
\* and then every occurrence of "mapper.projection_unit.main.main." is
\* deleted from it.
Renamed(k) ==
    CASE k = Key_a -> Key_a
      [] k = Key_plain -> <<"w">>
      [] k = Key_module_first -> <<"w">>
      [] k = Key_module_inside -> <<"w">>
      [] k = Key_submodule -> <<"sub", "w">>

\* C6 (amended): a key is kept iff it contains projection_unit and not
\* mapper_copy; a kept key is renamed by deleting every occurrence of
\* "module." and then every occurrence of "mapper.projection_unit.main.main."
\* (wherever they occur); the result's keys are exactly the renamed kept keys,
\* each holding the unchanged tensor of the last kept item renamed to it;
\* excluded keys contribute nothing.
C6_Filter ==
    ck.status = "filtered" =>
        /\ DOMAIN ck.cleaned = {Renamed(ck.state_dict[i].k) : i \in KeptItems}
        /\ \A i \in KeptItems :
              (\A j \in KeptItems :
                  Renamed(ck.state_dict[j].k) = Renamed(ck.state_dict[i].k) => j <= i)
              => ck.cleaned[Renamed(ck.state_dict[i].k)] = ck.state_dict[i].v

C6_Witness ==
    /\ ck.status = "filtered"
    /\ Len(ck.state_dict) = 3
    /\ ck.state_dict[1] = [k |-> Key_a, v |-> 1]
    /\ ck.state_dict[2].k = Key_a_copy
    /\ ck.state_dict[3].k = Key_other
    /\ ck.cleaned = (Key_a :> 1)

====
